---- MODULE Spec2Model ----
(***************************************************************************)
(* Model of src/app/create_icon.py: the macOS iconset generator.           *)
(*                                                                         *)
(* main() is a single sequential process; its position is pc.  The file    *)
(* system it touches (the source PNG, the AppIcon.iconset staging          *)
(* directory, the Resources directory, the compiled AppIcon.icns) is the   *)
(* state.  Python floats are IEEE-754 binary64; the scale computation of   *)
(* create_square_icon is modelled bit by bit (53-bit significand, round to *)
(* nearest even), because int() truncation is sensitive to the last bit.   *)
(***************************************************************************)
EXTENDS Integers, Naturals, Sequences, FiniteSets, TLC

(* ---------------------------- bounds ----------------------------------- *)
\* largest source width/height explored by the canvas specification
MaxDim == 50
\* largest source width/height explored by the whole-run specification
MaxSrcDim == 2
\* number of consecutive runs of main explored
MaxRuns == 2

(* ------------------------ binary64 arithmetic -------------------------- *)
\* significand width of a Python float
Precision == 53
\* the integers of the model checker are 32 bits wide: a significand is
\* held as a sequence of limbs, most significant first, LimbBits bits each
LimbBits == 18

RECURSIVE Pow2(_)
Pow2(n) == IF n = 0 THEN 1 ELSE 2 * Pow2(n - 1)

Base == Pow2(LimbBits)

\* a positive float is [sig |-> <<l1, l2, l3>>, exp |-> e], of value
\* (l1 * Base^2 + l2 * Base + l3) * 2^e, the significand having exactly
\* Precision bits

RECURSIVE BitLen(_)
BitLen(v) == IF v = 0 THEN 0 ELSE 1 + BitLen(v \div 2)

RECURSIVE StripZero(_)
StripZero(X) == IF Len(X) > 1 /\ X[1] = 0 THEN StripZero(Tail(X)) ELSE X

NumBits(X) == LimbBits * (Len(X) - 1) + BitLen(X[1])

RECURSIVE LimbsToInt(_)
LimbsToInt(X) ==
    IF X = <<>> THEN 0
    ELSE Base * LimbsToInt(SubSeq(X, 1, Len(X) - 1)) + X[Len(X)]

\* X div 2^t, for 0 <= t <= LimbBits
ShiftRight(X, t) ==
    [i \in 1..Len(X) |->
        (IF i = 1 THEN 0 ELSE (X[i - 1] % Pow2(t)) * Pow2(LimbBits - t))
        + (X[i] \div Pow2(t))]

RECURSIVE AddOne(_)
AddOne(X) ==
    IF X = <<>> THEN <<1>>
    ELSE LET n == Len(X) IN
         IF X[n] + 1 < Base THEN [X EXCEPT ![n] = @ + 1]
         ELSE AddOne(SubSeq(X, 1, n - 1)) \o <<0>>

\* round the number X * 2^e to Precision bits, ties to even; sticky tells
\* whether the exact value has nonzero bits below X
RoundToPrecision(X0, e, sticky) ==
    LET X    == StripZero(X0)
        drop == NumBits(X) - Precision
        low  == X[Len(X)] % Pow2(drop)
        half == IF drop = 0 THEN 0 ELSE Pow2(drop - 1)
        kept == StripZero(ShiftRight(X, drop))
        up   == /\ drop > 0
                /\ \/ low > half
                   \/ /\ low = half
                      /\ (sticky \/ kept[Len(kept)] % 2 = 1)
        r    == IF up THEN AddOne(kept) ELSE kept
    IN  IF NumBits(r) > Precision
        THEN [sig |-> ShiftRight(r, 1), exp |-> e + drop + 1]
        ELSE [sig |-> r, exp |-> e + drop]

\* a / b = (num / den) * 2^exp with den <= num < 2 * den
RECURSIVE Normalise(_, _, _)
Normalise(a, b, e) ==
    IF a < b THEN Normalise(2 * a, b, e - 1)
    ELSE IF a >= 2 * b THEN Normalise(a, 2 * b, e + 1)
    ELSE [num |-> a, den |-> b, exp |-> e]

\* Python int / int (true division): the correctly rounded quotient.
\* Long division in base Base gives the Precision + 1 leading bits of
\* num / den and the remainder.
TrueDiv(a, b) ==
    LET nm == Normalise(a, b, 0)
        n1 == nm.num * Pow2(Precision - 2 * LimbBits)
        q1 == n1 \div nm.den
        r1 == n1 % nm.den
        q2 == (r1 * Base) \div nm.den
        r2 == (r1 * Base) % nm.den
        q3 == (r2 * Base) \div nm.den
        r3 == (r2 * Base) % nm.den
    IN  RoundToPrecision(<<q1, q2, q3>>, nm.exp - Precision, r3 # 0)

\* X * w + carry, for a small positive integer w
RECURSIVE MulLimbs(_, _, _)
MulLimbs(X, w, carry) ==
    IF X = <<>> THEN <<carry>>
    ELSE LET n == Len(X)
             t == X[n] * w + carry
         IN  MulLimbs(SubSeq(X, 1, n - 1), w, t \div Base) \o <<t % Base>>

\* Python int * float: the int converts exactly, the product is rounded
IntTimesFloat(w, f) == RoundToPrecision(MulLimbs(f.sig, w, 0), f.exp, FALSE)

\* the integer part X div 2^s of a significand, for 0 < s < Precision
IntPart(X, s) ==
    LimbsToInt(ShiftRight(SubSeq(X, 1, Len(X) - (s \div LimbBits)),
                          s % LimbBits))

\* bit j (0 = least significant) of a significand
BitAt(X, j) == (X[Len(X) - (j \div LimbBits)] \div Pow2(j % LimbBits)) % 2

\* whether any of the bits 0 .. j-1 of a significand is set
AnyBelow(X, j) ==
    \/ X[Len(X) - (j \div LimbBits)] % Pow2(j % LimbBits) # 0
    \/ \E i \in (Len(X) - (j \div LimbBits) + 1)..Len(X) : X[i] # 0

\* Python int(float): truncation toward zero
IntOfFloat(f) ==
    IF f.exp >= 0 THEN LimbsToInt(f.sig) * Pow2(f.exp)
    ELSE IF -f.exp >= Precision THEN 0
    ELSE IntPart(f.sig, -f.exp)

\* Python round(float): nearest integer, ties to even.  The source never
\* calls round; the operator states what C6 expects of the resize.
RoundOfFloat(f) ==
    IF f.exp >= 0 THEN LimbsToInt(f.sig) * Pow2(f.exp)
    ELSE IF -f.exp > Precision THEN 0
    ELSE LET s  == -f.exp
             ip == IF s = Precision THEN 0 ELSE IntPart(f.sig, s)
             up == /\ BitAt(f.sig, s - 1) = 1
                   /\ (AnyBelow(f.sig, s - 1) \/ ip % 2 = 1)
         IN  IF up THEN ip + 1 ELSE ip

(* ------------------------- create_square_icon -------------------------- *)
Min(a, b) == IF a <= b THEN a ELSE b

\* Python // : floor division, also for a negative numerator
FloorDiv2(n) == IF n >= 0 THEN n \div 2 ELSE -((1 - n) \div 2)

\* the image returned by create_square_icon for a decodable width x height
\* source; the locals of the function are kept as fields
create_square_icon(width, height, size) ==
    LET scale      == TrueDiv(size, Min(width, height))
        new_width  == IntOfFloat(IntTimesFloat(width, scale))
        new_height == IntOfFloat(IntTimesFloat(height, scale))
        left       == FloorDiv2(new_width - size)
        top        == FloorDiv2(new_height - size)
        right      == left + size
        bottom     == top + size
    IN  [width      |-> right - left,
         height     |-> bottom - top,
         new_width  |-> new_width,
         new_height |-> new_height,
         left       |-> left,
         top        |-> top,
         right      |-> right,
         bottom     |-> bottom]

(* ------------------------------ state ---------------------------------- *)
VARIABLES
    run,             \* number of runs of the script started so far
    pc,              \* position of the current run inside main
    source,          \* icon/app_icon.png: [exists, decodable, width, height]
    iconsetExists,   \* whether the directory AppIcon.iconset exists
    iconsetFiles,    \* its content: file name -> image stored in the file
    resourcesExists, \* whether Amirror.app/Contents/Resources exists
    icnsExists,      \* whether AppIcon.icns exists
    base_icon,       \* local of generate_iconset
    crop,            \* locals of the last call of create_square_icon
    canvasBuilds,    \* calls of create_square_icon made by the current run
    i,               \* index into sizes of the loop of generate_iconset
    result,          \* value returned by create_icns
    exitCode,        \* exit status of the current run, -1 while it runs
    invoked,         \* how often the current run has started iconutil
    seen,            \* content of the directory handed to iconutil
    cause,           \* how the current run ended
    atStart          \* the file system as the current run found it

vars == <<run, pc, source, iconsetExists, iconsetFiles, resourcesExists,
          icnsExists, base_icon, crop, canvasBuilds, i, result, exitCode,
          invoked, seen, cause, atStart>>

\* sizes of generate_iconset
sizes == <<
    <<16, "icon_16x16.png">>,
    <<32, "icon_16x16@2x.png">>,
    <<32, "icon_32x32.png">>,
    <<64, "icon_32x32@2x.png">>,
    <<128, "icon_128x128.png">>,
    <<256, "icon_128x128@2x.png">>,
    <<256, "icon_256x256.png">>,
    <<512, "icon_256x256@2x.png">>,
    <<512, "icon_512x512.png">>,
    <<1024, "icon_512x512@2x.png">> >>

\* the size argument of the call of create_square_icon
CanvasSize == 1024

\* an image: its dimensions, the call of create_square_icon it descends
\* from (run, build) and the number of resize steps since then (depth)
NoImage == [width |-> 0, height |-> 0, run |-> 0, build |-> 0, depth |-> 0]
NoCrop  == [width |-> 0, height |-> 0, new_width |-> 0, new_height |-> 0,
            left |-> 0, top |-> 0, right |-> 0, bottom |-> 0]
NoFiles == [n \in {} |-> NoImage]

\* a file that was in the directory before the first run
OldFile == [width |-> 16, height |-> 16, run |-> 0, build |-> 0, depth |-> 1]

\* Image.resize((size, size)): a new image, the receiver is left alone
Resize(img, size) ==
    [width |-> size, height |-> size, run |-> img.run, build |-> img.build,
     depth |-> img.depth + 1]

\* Image.save(output_path): creates or overwrites the file
Save(files, name, img) ==
    [n \in (DOMAIN files) \cup {name} |-> IF n = name THEN img ELSE files[n]]

FileSystem ==
    [iconsetExists |-> iconsetExists, iconsetFiles |-> iconsetFiles,
     resourcesExists |-> resourcesExists, icnsExists |-> icnsExists]

(* ------------------------------ Init ----------------------------------- *)
\* what AppIcon.iconset may hold before the first run: nothing, a file of
\* another name, or one of the variant files
InitialIconsets ==
    { [exists |-> FALSE, files |-> NoFiles],
      [exists |-> TRUE,  files |-> NoFiles],
      [exists |-> TRUE,  files |-> Save(NoFiles, "notes.txt", OldFile)],
      [exists |-> TRUE,  files |-> Save(NoFiles, "icon_16x16.png", OldFile)] }

NoSource == [exists |-> FALSE, decodable |-> FALSE, width |-> 0, height |-> 0]

Init ==
    /\ run = 0
    /\ pc = "idle"
    /\ source = NoSource
    /\ \E d \in InitialIconsets :
          /\ iconsetExists = d.exists
          /\ iconsetFiles = d.files
    /\ \E r \in {<<FALSE, FALSE>>, <<TRUE, FALSE>>, <<TRUE, TRUE>>} :
          /\ resourcesExists = r[1]
          /\ icnsExists = r[2]
    /\ base_icon = NoImage
    /\ crop = NoCrop
    /\ canvasBuilds = 0
    /\ i = 0
    /\ result = FALSE
    /\ exitCode = -1
    /\ invoked = 0
    /\ seen = NoFiles
    /\ cause = "none"
    /\ atStart = [iconsetExists |-> iconsetExists, iconsetFiles |-> iconsetFiles,
                  resourcesExists |-> resourcesExists, icnsExists |-> icnsExists]

(* ----------------------------- actions --------------------------------- *)
\* the sources a run may find at icon/app_icon.png
Sources(maxDim) ==
    {NoSource,
     [exists |-> TRUE, decodable |-> FALSE, width |-> 0, height |-> 0]}
    \cup [exists : {TRUE}, decodable : {TRUE},
          width : 1..maxDim, height : 1..maxDim]

\* the script is started: main() is entered
Launch ==
    /\ pc \in {"idle", "exited"}
    /\ run < MaxRuns
    /\ run' = run + 1
    /\ pc' = "main"
    /\ source' \in Sources(MaxSrcDim)
    /\ base_icon' = NoImage
    /\ crop' = NoCrop
    /\ canvasBuilds' = 0
    /\ i' = 0
    /\ result' = FALSE
    /\ exitCode' = -1
    /\ invoked' = 0
    /\ seen' = NoFiles
    /\ cause' = "none"
    /\ atStart' = FileSystem
    /\ UNCHANGED <<iconsetExists, iconsetFiles, resourcesExists, icnsExists>>

\* MainCheckSource without the sys.exit(1) of the missing-file branch
MainCheckSourceNoExit ==
    /\ pc = "main"
    /\ pc' = "generate_iconset"
    /\ UNCHANGED <<exitCode, cause>>
    /\ UNCHANGED <<run, source, iconsetExists, iconsetFiles, resourcesExists,
                   icnsExists, base_icon, crop, canvasBuilds, i, result,
                   invoked, seen, atStart>>

\* main: the existence check of the source
MainCheckSource ==
    /\ pc = "main"
    /\ IF ~source.exists
       THEN /\ pc' = "exited"
            /\ exitCode' = 1
            /\ cause' = "missing"
       ELSE /\ pc' = "generate_iconset"
            /\ UNCHANGED <<exitCode, cause>>
    /\ UNCHANGED <<run, source, iconsetExists, iconsetFiles, resourcesExists,
                   icnsExists, base_icon, crop, canvasBuilds, i, result,
                   invoked, seen, atStart>>

\* generate_iconset: os.makedirs(iconset_dir, exist_ok=True)
GenMakedirs ==
    /\ pc = "generate_iconset"
    /\ iconsetExists' = TRUE
    /\ pc' = "create_square_icon"
    /\ UNCHANGED <<run, source, iconsetFiles, resourcesExists, icnsExists,
                   base_icon, crop, canvasBuilds, i, result, exitCode,
                   invoked, seen, cause, atStart>>

\* generate_iconset: base_icon = create_square_icon(source_path, ..., 1024).
\* Image.open raises when the file cannot be read as an image; nothing
\* catches the exception and the interpreter exits with status 1.
GenCreateSquare ==
    /\ pc = "create_square_icon"
    /\ IF source.exists /\ source.decodable
       THEN LET c == create_square_icon(source.width, source.height, CanvasSize)
            IN  /\ crop' = c
                /\ base_icon' = [width |-> c.width, height |-> c.height,
                                 run |-> run, build |-> canvasBuilds + 1,
                                 depth |-> 0]
                /\ canvasBuilds' = canvasBuilds + 1
                /\ i' = 1
                /\ pc' = "save"
                /\ UNCHANGED <<exitCode, cause>>
       ELSE /\ pc' = "exited"
            /\ exitCode' = 1
            /\ cause' = "decode"
            /\ UNCHANGED <<crop, base_icon, canvasBuilds, i>>
    /\ UNCHANGED <<run, source, iconsetExists, iconsetFiles, resourcesExists,
                   icnsExists, result, invoked, seen, atStart>>

\* GenSaveVariant with a save whose failure is swallowed: the loop goes on
GenSaveVariantSwallow ==
    /\ pc = "save"
    /\ i \in 1..Len(sizes)
    /\ LET size     == sizes[i][1]
           filename == sizes[i][2]
           resized  == Resize(base_icon, size)
       IN  \/ iconsetFiles' = Save(iconsetFiles, filename, resized)
           \/ UNCHANGED iconsetFiles
    /\ i' = i + 1
    /\ pc' = IF i = Len(sizes) THEN "resources" ELSE "save"
    /\ UNCHANGED <<run, source, iconsetExists, resourcesExists, icnsExists,
                   base_icon, crop, canvasBuilds, result, invoked, seen,
                   atStart, exitCode, cause>>

\* GenSaveVariant with the loop variable reused: base_icon = base_icon.resize
GenSaveVariantChained ==
    /\ pc = "save"
    /\ i \in 1..Len(sizes)
    /\ LET size     == sizes[i][1]
           filename == sizes[i][2]
           resized  == Resize(base_icon, size)
       IN  \/ /\ iconsetFiles' = Save(iconsetFiles, filename, resized)
              /\ base_icon' = resized
              /\ i' = i + 1
              /\ pc' = IF i = Len(sizes) THEN "resources" ELSE "save"
              /\ UNCHANGED <<exitCode, cause>>
           \/ /\ pc' = "exited"
              /\ exitCode' = 1
              /\ cause' = "write"
              /\ UNCHANGED <<iconsetFiles, i, base_icon>>
    /\ UNCHANGED <<run, source, iconsetExists, resourcesExists, icnsExists,
                   crop, canvasBuilds, result, invoked, seen, atStart>>

\* generate_iconset: one iteration of the loop over sizes.  save either
\* writes the file or raises; the exception is not caught and the
\* interpreter exits with status 1.  After the last iteration the function
\* returns to main.
GenSaveVariant ==
    /\ pc = "save"
    /\ i \in 1..Len(sizes)
    /\ LET size     == sizes[i][1]
           filename == sizes[i][2]
           resized  == Resize(base_icon, size)
       IN  \/ /\ iconsetFiles' = Save(iconsetFiles, filename, resized)
              /\ i' = i + 1
              /\ pc' = IF i = Len(sizes) THEN "resources" ELSE "save"
              /\ UNCHANGED <<exitCode, cause>>
           \/ /\ pc' = "exited"
              /\ exitCode' = 1
              /\ cause' = "write"
              /\ UNCHANGED <<iconsetFiles, i>>
    /\ UNCHANGED <<run, source, iconsetExists, resourcesExists, icnsExists,
                   base_icon, crop, canvasBuilds, result, invoked, seen,
                   atStart>>

\* main: os.makedirs(os.path.dirname(icns_output), exist_ok=True)
MainMakeResources ==
    /\ pc = "resources"
    /\ resourcesExists' = TRUE
    /\ pc' = "create_icns"
    /\ UNCHANGED <<run, source, iconsetExists, iconsetFiles, icnsExists,
                   base_icon, crop, canvasBuilds, i, result, exitCode,
                   invoked, seen, cause, atStart>>

\* create_icns: iconutil is run on the directory; it exits with status 0
\* and has written the .icns file, exits with another status, or cannot be
\* started at all (subprocess.run raises, the except clause returns False)
CreateIcns ==
    /\ pc = "create_icns"
    /\ invoked' = invoked + 1
    /\ seen' = iconsetFiles
    /\ \E outcome \in {"ok", "nonzero", "raise"} :
          /\ cause' = outcome
          /\ result' = (outcome = "ok")
          /\ icnsExists' = IF outcome = "ok" THEN TRUE ELSE icnsExists
    /\ pc' = "cleanup"
    /\ UNCHANGED <<run, source, iconsetExists, iconsetFiles, resourcesExists,
                   base_icon, crop, canvasBuilds, i, exitCode, atStart>>

\* MainCleanup with the rmtree moved out of the branch
MainCleanupAlwaysRemove ==
    /\ pc = "cleanup"
    /\ iconsetExists' = FALSE
    /\ iconsetFiles' = NoFiles
    /\ exitCode' = IF result THEN 0 ELSE 1
    /\ pc' = "exited"
    /\ UNCHANGED <<run, source, resourcesExists, icnsExists, base_icon, crop,
                   canvasBuilds, i, result, invoked, seen, cause, atStart>>

\* MainCleanup without the sys.exit(1) of the else branch
MainCleanupNoExit ==
    /\ pc = "cleanup"
    /\ IF result
       THEN /\ iconsetExists' = FALSE
            /\ iconsetFiles' = NoFiles
       ELSE UNCHANGED <<iconsetExists, iconsetFiles>>
    /\ exitCode' = 0
    /\ pc' = "exited"
    /\ UNCHANGED <<run, source, resourcesExists, icnsExists, base_icon, crop,
                   canvasBuilds, i, result, invoked, seen, cause, atStart>>

\* main: the branch on the value of create_icns
MainCleanup ==
    /\ pc = "cleanup"
    /\ IF result
       THEN /\ iconsetExists' = FALSE
            /\ iconsetFiles' = NoFiles
            /\ exitCode' = 0
       ELSE /\ exitCode' = 1
            /\ UNCHANGED <<iconsetExists, iconsetFiles>>
    /\ pc' = "exited"
    /\ UNCHANGED <<run, source, resourcesExists, icnsExists, base_icon, crop,
                   canvasBuilds, i, result, invoked, seen, cause, atStart>>

Next ==
    \/ Launch
    \/ MainCheckSource
    \/ GenMakedirs
    \/ GenCreateSquare
    \/ GenSaveVariant
    \/ MainMakeResources
    \/ CreateIcns
    \/ MainCleanup

Spec == Init /\ [][Next]_vars

(* ------------- create_square_icon on its own, larger sources ----------- *)
\* a first run that has reached the call of create_square_icon
InitCanvas ==
    /\ run = 1
    /\ pc = "create_square_icon"
    /\ source \in Sources(MaxDim) \ {NoSource}
    /\ iconsetExists = TRUE
    /\ iconsetFiles = NoFiles
    /\ resourcesExists = FALSE
    /\ icnsExists = FALSE
    /\ base_icon = NoImage
    /\ crop = NoCrop
    /\ canvasBuilds = 0
    /\ i = 0
    /\ result = FALSE
    /\ exitCode = -1
    /\ invoked = 0
    /\ seen = NoFiles
    /\ cause = "none"
    /\ atStart = [iconsetExists |-> FALSE, iconsetFiles |-> NoFiles,
                  resourcesExists |-> FALSE, icnsExists |-> FALSE]

NextCanvas == GenCreateSquare

SpecCanvas == InitCanvas /\ [][NextCanvas]_vars

(* ------------------------------ claims --------------------------------- *)
\* the iconset file table the platform compiler expects: size, file name
MandatedVariants ==
    { <<16, "icon_16x16.png">>,      <<32, "icon_16x16@2x.png">>,
      <<32, "icon_32x32.png">>,      <<64, "icon_32x32@2x.png">>,
      <<128, "icon_128x128.png">>,   <<256, "icon_128x128@2x.png">>,
      <<256, "icon_256x256.png">>,   <<512, "icon_256x256@2x.png">>,
      <<512, "icon_512x512.png">>,   <<1024, "icon_512x512@2x.png">> }

MandatedNames == { v[2] : v \in MandatedVariants }

\* files holds every mandated variant at its mandated size
HoldsAllTen(files) ==
    \A v \in MandatedVariants :
        /\ v[2] \in DOMAIN files
        /\ files[v[2]].width = v[1]
        /\ files[v[2]].height = v[1]

\* every mandated variant in files was written by the current run
WrittenByThisRun(files) ==
    \A n \in MandatedNames : n \in DOMAIN files /\ files[n].run = run

\* the canvas has been built by the current run
CanvasBuilt == pc = "save" /\ canvasBuilds = 1

\* the float scale of create_square_icon for the current source
SourceScale == TrueDiv(CanvasSize, Min(source.width, source.height))

\* C1: a run whose source exists but cannot be decoded ends without having
\* created the staging directory: if AppIcon.iconset did not exist when the
\* run started, it does not exist when the run has ended.
C1_NoStagingDirAfterDecodeFailure ==
    (pc = "exited" /\ cause = "decode" /\ ~atStart.iconsetExists)
        => ~iconsetExists

\* C2: whenever iconutil has been started, the directory it was given held
\* all ten mandated files, each at its mandated size and written by this
\* run; the run is never about to start iconutil, nor has started it, after
\* a failed write.
C2_CompilerSeesAllTen ==
    /\ invoked > 0 => HoldsAllTen(seen) /\ WrittenByThisRun(seen)
    /\ pc = "create_icns" =>
          HoldsAllTen(iconsetFiles) /\ WrittenByThisRun(iconsetFiles)
    /\ cause = "write" => invoked = 0

C2_Witness == invoked > 0 /\ HoldsAllTen(seen)

C5_MissingSourceChangesNothing ==
    (run > 0 /\ ~source.exists) =>
        /\ FileSystem = atStart
        /\ canvasBuilds = 0
        /\ invoked = 0
        /\ pc = "exited" => exitCode = 1

C5_Witness ==
    /\ pc = "exited"
    /\ ~source.exists
    /\ cause = "missing"
    /\ ~iconsetExists
    /\ ~resourcesExists

\* C6: the dimensions create_square_icon resizes to are
\* round(width * scale) x round(height * scale).
C6_ResizedIsRounded ==
    CanvasBuilt =>
        /\ crop.new_width = RoundOfFloat(IntTimesFloat(source.width, SourceScale))
        /\ crop.new_height = RoundOfFloat(IntTimesFloat(source.height, SourceScale))

\* C7: for a source with width # height, the crop rectangle lies inside
\* the resized image.
C7_CropInsideResized ==
    (CanvasBuilt /\ source.width # source.height) =>
        /\ 0 <= crop.left
        /\ crop.right <= crop.new_width
        /\ 0 <= crop.top
        /\ crop.bottom <= crop.new_height

\* C8: a run that writes variants has called create_square_icon exactly
\* once; base_icon is still that canvas, and every variant file the run has
\* written is one resize step away from that canvas.
C8_OneCanvasForAllVariants ==
    pc \in {"save", "resources", "create_icns", "cleanup"} =>
        /\ canvasBuilds = 1
        /\ base_icon = [width |-> CanvasSize, height |-> CanvasSize,
                        run |-> run, build |-> 1, depth |-> 0]
        /\ \A n \in DOMAIN iconsetFiles :
              iconsetFiles[n].run = run =>
                  /\ iconsetFiles[n].build = 1
                  /\ iconsetFiles[n].depth = 1

C8_Witness ==
    /\ pc = "resources"
    /\ WrittenByThisRun(iconsetFiles)
    /\ canvasBuilds = 1

\* C9: when iconutil is started, the staging directory holds exactly the
\* ten mandated files, all written by the current run, and no file that was
\* there before the run.
C9_FreshBundle ==
    invoked > 0 =>
        /\ DOMAIN seen = MandatedNames
        /\ WrittenByThisRun(seen)

\* C10: for a source with width > height (height > width) the margins cut
\* off left and right (top and bottom) differ by at most one pixel, and the
\* crop offset on the shorter axis is 0.
C10_CenteredCrop ==
    /\ (CanvasBuilt /\ source.width > source.height) =>
          /\ crop.left - (crop.new_width - CanvasSize - crop.left) \in {-1, 0, 1}
          /\ crop.top = 0
    /\ (CanvasBuilt /\ source.height > source.width) =>
          /\ crop.top - (crop.new_height - CanvasSize - crop.top) \in {-1, 0, 1}
          /\ crop.left = 0

====
